---------------------------- MODULE Spec2Model ----------------------------
(***************************************************************************)
(* A model of multiple.py, the wardrobe styling script.                    *)
(*                                                                         *)
(* The script is run top to bottom on every interaction.  What survives a  *)
(* run is st.session_state; what a run shows is the list of widgets and    *)
(* messages it emitted.  The hosted model, the uploaded pictures and the   *)
(* environment variable are inputs of a run.                               *)
(*                                                                         *)
(* Texts are sequences of one-character strings over Alphabet.  Python     *)
(* values are records [kind, items]: None, a number, a dict, a list (items *)
(* are its elements) or a str (items are its characters).                  *)
(***************************************************************************)
EXTENDS Integers, Sequences, FiniteSets, TLC

VARIABLES session, lastRun

vars == <<session, lastRun>>

(* Bounds of the model. *)
MaxLen == 6
MaxImages == 2

---------------------------------------------------------------------------
(* Python values *)

None == [kind |-> "None", items |-> <<>>]
Dict == [kind |-> "dict", items |-> <<>>]
Number == [kind |-> "number", items |-> <<>>]
List(xs) == [kind |-> "list", items |-> xs]
Str(cs) == [kind |-> "str", items |-> cs]

(* bool(v): None, an empty list, an empty str and an empty dict are falsy.  *)
(* The only dict the alphabet can spell is {}.                              *)
Truthy(v) ==
  CASE v.kind = "None" -> FALSE
    [] v.kind = "dict" -> FALSE
    [] v.kind = "number" -> TRUE
    [] OTHER -> v.items # <<>>

(* isinstance(v, list) *)
IsList(v) == v.kind = "list"

(* hasattr(v, "get"): of the values json.loads produces only a dict has it. *)
HasGet(v) == v.kind = "dict"

---------------------------------------------------------------------------
(* Texts *)

Alphabet == {"[", "]", "{", "}", ",", " ", "1"}

Texts == UNION {[1..n -> Alphabet] : n \in 0..MaxLen}

IsSpace(c) == c = " "

(* The first index >= i of s that holds no whitespace, Len(s)+1 if none.   *)
RECURSIVE SkipWs(_, _)
SkipWs(s, i) ==
  IF i <= Len(s) /\ IsSpace(s[i]) THEN SkipWs(s, i + 1) ELSE i

(* The last index <= i of s that holds no whitespace, 0 if none. *)
RECURSIVE SkipWsBack(_, _)
SkipWsBack(s, i) ==
  IF i >= 1 /\ IsSpace(s[i]) THEN SkipWsBack(s, i - 1) ELSE i

(* str.strip() *)
Strip(s) ==
  LET a == SkipWs(s, 1)
      b == SkipWsBack(s, Len(s))
  IN IF a > b THEN <<>> ELSE SubSeq(s, a, b)

---------------------------------------------------------------------------
(* re.search(r'\[\s*\{.*\}\s*\]', s, re.DOTALL) *)

AllSpace(s, a, b) == \A x \in a..b : IsSpace(s[x])

(* A looser pattern, r'\[.*\]': any bracketed text. *)
PatternMatchesAnyArray(s, i, e) ==
  /\ 1 <= i /\ i < e /\ e <= Len(s)
  /\ s[i] = "[" /\ s[e] = "]"

(* s[i..e] is in the language of the pattern: '[', whitespace, '{', any    *)
(* characters (DOTALL: newlines too), '}', whitespace, ']'.                *)
PatternMatches(s, i, e) ==
  /\ 1 <= i /\ e <= Len(s)
  /\ s[i] = "[" /\ s[e] = "]"
  /\ \E j \in (i + 1)..(e - 1) :
       /\ s[j] = "{" /\ AllSpace(s, i + 1, j - 1)
       /\ \E k \in (j + 1)..(e - 1) :
            s[k] = "}" /\ AllSpace(s, k + 1, e - 1)

MatchEnds(s, i) == {e \in i..Len(s) : PatternMatches(s, i, e)}

MatchStarts(s) ==
  {i \in 1..Len(s) : \E e \in i..Len(s) : PatternMatches(s, i, e)}

Min(S) == CHOOSE x \in S : \A y \in S : x <= y
Max(S) == CHOOSE x \in S : \A y \in S : x >= y

(* The search with a lazy '.*?': the shortest match at the leftmost start. *)
re_searchShortest(s) ==
  LET starts == MatchStarts(s)
  IN IF starts = {}
     THEN [found |-> FALSE, start |-> 0, end |-> 0]
     ELSE LET i == Min(starts)
          IN [found |-> TRUE, start |-> i, end |-> Min(MatchEnds(s, i))]

(* The match object: search takes the leftmost start at which the pattern  *)
(* matches; '.*' is greedy, and the whitespace runs are forced, so of the  *)
(* matches at that start the longest is taken.                             *)
re_search(s) ==
  LET starts == MatchStarts(s)
  IN IF starts = {}
     THEN [found |-> FALSE, start |-> 0, end |-> 0]
     ELSE LET i == Min(starts)
          IN [found |-> TRUE, start |-> i, end |-> Max(MatchEnds(s, i))]

(* json_match.group(0) *)
group0(s, m) == SubSeq(s, m.start, m.end)

---------------------------------------------------------------------------
(* json.loads, on the alphabet: numbers are runs of the digit, the only    *)
(* object is {} (no member can be spelled), arrays nest.                   *)

Failed == [ok |-> FALSE, next |-> 0, val |-> None]

RECURSIVE SkipDigits(_, _)
SkipDigits(s, i) ==
  IF i <= Len(s) /\ s[i] = "1" THEN SkipDigits(s, i + 1) ELSE i

RECURSIVE ParseValue(_, _)
RECURSIVE ParseElements(_, _, _)

(* scan_once at index i (whitespace already skipped by the caller) *)
ParseValue(s, i) ==
  IF i > Len(s) THEN Failed
  ELSE CASE s[i] = "1" ->
              [ok |-> TRUE, next |-> SkipDigits(s, i), val |-> Number]
         [] s[i] = "{" ->
              LET j == SkipWs(s, i + 1)
              IN IF j <= Len(s) /\ s[j] = "}"
                 THEN [ok |-> TRUE, next |-> j + 1, val |-> Dict]
                 ELSE Failed
         [] s[i] = "[" ->
              LET j == SkipWs(s, i + 1)
              IN IF j <= Len(s) /\ s[j] = "]"
                 THEN [ok |-> TRUE, next |-> j + 1, val |-> List(<<>>)]
                 ELSE ParseElements(s, j, <<>>)
         [] OTHER -> Failed

(* JSONArray's loop: a value, then ']' or ',' *)
ParseElements(s, i, acc) ==
  LET v == ParseValue(s, i)
  IN IF ~v.ok THEN Failed
     ELSE LET j == SkipWs(s, v.next)
              xs == Append(acc, v.val)
          IN IF j > Len(s) THEN Failed
             ELSE CASE s[j] = "]" ->
                         [ok |-> TRUE, next |-> j + 1, val |-> List(xs)]
                    [] s[j] = "," -> ParseElements(s, SkipWs(s, j + 1), xs)
                    [] OTHER -> Failed

(* json.loads(s): ok is FALSE where it raises JSONDecodeError (no value,   *)
(* or extra data after it).                                                *)
json_loads(s) ==
  LET v == ParseValue(s, SkipWs(s, 1))
  IN IF v.ok /\ SkipWs(s, v.next) = Len(s) + 1
     THEN [ok |-> TRUE, val |-> v.val]
     ELSE [ok |-> FALSE, val |-> None]

---------------------------------------------------------------------------
(* Messages and widgets a run shows, in the order it shows them *)

MsgNoKey == "GEMINI_API_KEY is not set in the environment variables."
MsgExtract == "Failed to extract JSON from the response. Please check the format."
MsgNotArray == "The response should be an array of objects."
MsgParse == "Error parsing JSON from the cleaned response"
MsgAnalyze == "Error analyzing image"
MsgGenerate == "Error generating outfit combinations"
MsgOneImage == "Could not get analysis, please try again for one of the images."
MsgAllImages == "Could not get analysis, please try again for all images."
MsgComplete == "Image Analysis Complete!"
MsgNoOutfits == "Could not generate outfit combinations"
MsgUploadFirst == "Please upload an image in the dashboard page to generate outfit combinations."
WImage == "Uploaded Wardrobe Image"
WCatalog == "Clothing Catalog:"
WItem == "Item"
WSuggestions == "Outfit Suggestions:"
WDownload == "Download Catalog and Outfits"
WNextStep == "Go to Next Step"

---------------------------------------------------------------------------
(* What the environment hands to a call *)

(* An uploaded picture, with what happens when it is analysed:             *)
(*   "empty"       the element of uploaded_images is falsy (the uploader   *)
(*                 and the camera never hand one over)                     *)
(*   "unreadable"  Image.open raises                                       *)
(*   "call_raises" model.generate_content raises                           *)
(*   "no_text"     response.text raises (the reply holds no text part)     *)
(*   "reply"       response.text is text                                   *)
Image(kind, text) == [kind |-> kind, text |-> text]

(* The hosted model's answer to the outfit prompt, same kinds. *)
Reply(kind, text) == [kind |-> kind, text |-> text]

(* The state of a try body: exc names the exception in flight, or "none".  *)
Flow(exc, ret, errors, calls, loads) ==
  [exc |-> exc, ret |-> ret, errors |-> errors, calls |-> calls, loads |-> loads]

(* What a call did: its return value, the st.error messages it showed, the *)
(* number of model.generate_content calls, the arguments it gave to        *)
(* json.loads, and whether an exception left it.                           *)
Outcome(ret, errors, calls, loads, raised) ==
  [ret |-> ret, errors |-> errors, calls |-> calls, loads |-> loads,
   raised |-> raised]

---------------------------------------------------------------------------
(* analyze_image *)

(* Lines 49-58: the inner try around json.loads. *)
ParseCleaned(cleaned_json, calls) ==
  LET json_response == json_loads(cleaned_json)
  IN IF ~json_response.ok
     THEN Flow("none", None, <<MsgParse>>, calls, <<cleaned_json>>)
     ELSE IF IsList(json_response.val)
          THEN Flow("none", json_response.val, <<>>, calls, <<cleaned_json>>)
          ELSE Flow("none", None, <<MsgNotArray>>, calls, <<cleaned_json>>)

(* Lines 38-58: from response.text on. *)
ExtractJson(text, calls) ==
  LET raw_response == Strip(text)
      json_match == re_search(raw_response)
  IN IF json_match.found
     THEN ParseCleaned(group0(raw_response, json_match), calls)
     ELSE Flow("none", None, <<MsgExtract>>, calls, <<>>)

(* The body with the model called before the picture is opened. *)
AnalyzeBodyCallBeforeOpen(image) ==
  CASE image.kind = "unreadable" -> Flow("Exception", None, <<>>, 1, <<>>)
    [] image.kind = "call_raises" -> Flow("Exception", None, <<>>, 1, <<>>)
    [] image.kind = "no_text" -> Flow("Exception", None, <<>>, 1, <<>>)
    [] OTHER -> ExtractJson(image.text, 1)

(* Lines 23-58: the body of the outer try. *)
AnalyzeBody(image) ==
  CASE image.kind = "unreadable" -> Flow("Exception", None, <<>>, 0, <<>>)
    [] image.kind = "call_raises" -> Flow("Exception", None, <<>>, 1, <<>>)
    [] image.kind = "no_text" -> Flow("Exception", None, <<>>, 1, <<>>)
    [] OTHER -> ExtractJson(image.text, 1)

(* No outer handler: the exception leaves analyze_image. *)
AnalyzeExceptReraise(f) ==
  IF f.exc = "none"
  THEN Outcome(f.ret, f.errors, f.calls, f.loads, FALSE)
  ELSE Outcome(None, f.errors, f.calls, f.loads, TRUE)

(* Lines 60-62: except Exception. *)
AnalyzeExcept(f) ==
  IF f.exc = "none"
  THEN Outcome(f.ret, f.errors, f.calls, f.loads, FALSE)
  ELSE Outcome(None, f.errors \o <<MsgAnalyze>>, f.calls, f.loads, FALSE)

analyze_image(image) == AnalyzeExcept(AnalyzeBody(image))

---------------------------------------------------------------------------
(* generate_outfit_combinations *)

(* Lines 72-73: the body of the try. *)
GenerateBody(reply) ==
  CASE reply.kind = "call_raises" -> Flow("Exception", None, <<>>, 1, <<>>)
    [] reply.kind = "no_text" -> Flow("Exception", None, <<>>, 1, <<>>)
    [] OTHER -> Flow("none", Str(reply.text), <<>>, 1, <<>>)

(* Lines 74-76: except Exception. *)
GenerateExcept(f) ==
  IF f.exc = "none"
  THEN Outcome(f.ret, f.errors, f.calls, f.loads, FALSE)
  ELSE Outcome(None, f.errors \o <<MsgGenerate>>, f.calls, f.loads, FALSE)

(* The catalog only enters the prompt; the reply does not depend on it here. *)
generate_outfit_combinations(catalog, reply) == GenerateExcept(GenerateBody(reply))

---------------------------------------------------------------------------
(* st.session_state: a function from the keys that are set to their values *)

EmptySession == [k \in {} |-> None]

SetCatalog(ss, v) == [k \in DOMAIN ss \cup {"catalog"} |->
                        IF k = "catalog" THEN v ELSE ss[k]]

---------------------------------------------------------------------------
(* One run of the script *)

(* What a run did.  key is GOOGLE_API_KEY as read, page the page it        *)
(* rendered ("none" if it stopped before main), uploaded_images the        *)
(* pictures it was given, shown what it displayed, analyses and            *)
(* generations the calls of the two functions with what they did,          *)
(* all_catalogs the list aggregated by the Dashboard loop, raised whether  *)
(* an exception ended the run.                                             *)
Run(key, page, uploaded_images, shown, analyses, generations, all_catalogs, raised) ==
  [key |-> key, page |-> page, uploaded_images |-> uploaded_images,
   shown |-> shown, analyses |-> analyses, generations |-> generations,
   all_catalogs |-> all_catalogs, raised |-> raised]

NoRun == Run(None, "none", <<>>, <<>>, <<>>, <<>>, <<>>, FALSE)

(* The test "gemini_api_key is None": an empty key passes. *)
KeyUnset(key) == key = None

(* Line 13: not gemini_api_key *)
KeyMissing(key) == ~Truthy(key)

(* Lines 14-15: st.error, st.stop *)
Stopped(key, ss) ==
  [session |-> ss,
   run |-> Run(key, "none", <<>>, <<MsgNoKey>>, <<>>, <<>>, <<>>, FALSE)]

(* Lines 104-112: the loop over uploaded_images, from index i on.  acc     *)
(* holds what the loop has shown, the calls it made and all_catalogs.      *)
RECURSIVE AnalyzeAll(_, _, _)
AnalyzeAll(uploaded_images, i, acc) ==
  IF i > Len(uploaded_images) \/ acc.raised THEN acc
  ELSE LET uploaded_image == uploaded_images[i]
       IN IF uploaded_image.kind = "empty"
          THEN AnalyzeAll(uploaded_images, i + 1, acc)
          ELSE LET out == analyze_image(uploaded_image)
                   catalog == out.ret
                   call == [image |-> uploaded_image, out |-> out]
                   shown == acc.shown \o <<WImage>> \o out.errors
               IN AnalyzeAll(uploaded_images, i + 1,
                    IF out.raised
                    THEN [acc EXCEPT !.shown = shown,
                                     !.analyses = Append(@, call),
                                     !.raised = TRUE]
                    ELSE IF Truthy(catalog)
                    THEN [acc EXCEPT !.shown = shown,
                                     !.analyses = Append(@, call),
                                     !.all_catalogs = @ \o catalog.items]
                    ELSE [acc EXCEPT !.shown = shown \o <<MsgOneImage>>,
                                     !.analyses = Append(@, call)])

(* Lines 116-125: one expander per item; item.get raises AttributeError on *)
(* an item that is no dict, which ends the run.                            *)
RECURSIVE RenderItems(_, _, _)
RenderItems(items, i, shown) ==
  IF i > Len(items) THEN [shown |-> shown, raised |-> FALSE]
  ELSE IF ~HasGet(items[i]) THEN [shown |-> shown, raised |-> TRUE]
  ELSE RenderItems(items, i + 1, Append(shown, WItem))

(* Lines 113-129 with the new items appended to the stored catalog. *)
StoreAndRenderAppend(key, uploaded_images, acc, ss) ==
  IF acc.raised
  THEN [session |-> ss,
        run |-> Run(key, "Dashboard", uploaded_images, acc.shown, acc.analyses,
                    <<>>, acc.all_catalogs, TRUE)]
  ELSE IF acc.all_catalogs # <<>>
  THEN LET r == RenderItems(acc.all_catalogs, 1, Append(acc.shown, WCatalog))
           old == IF "catalog" \in DOMAIN ss THEN ss["catalog"].items ELSE <<>>
       IN [session |-> SetCatalog(ss, List(old \o acc.all_catalogs)),
           run |-> Run(key, "Dashboard", uploaded_images,
                       IF r.raised THEN r.shown ELSE Append(r.shown, MsgComplete),
                       acc.analyses, <<>>, acc.all_catalogs, r.raised)]
  ELSE [session |-> ss,
        run |-> Run(key, "Dashboard", uploaded_images,
                    Append(acc.shown, MsgAllImages), acc.analyses, <<>>,
                    acc.all_catalogs, FALSE)]

(* Lines 113-129 *)
StoreAndRender(key, uploaded_images, acc, ss) ==
  IF acc.raised
  THEN [session |-> ss,
        run |-> Run(key, "Dashboard", uploaded_images, acc.shown, acc.analyses,
                    <<>>, acc.all_catalogs, TRUE)]
  ELSE IF acc.all_catalogs # <<>>
  THEN LET r == RenderItems(acc.all_catalogs, 1, Append(acc.shown, WCatalog))
       IN [session |-> SetCatalog(ss, List(acc.all_catalogs)),
           run |-> Run(key, "Dashboard", uploaded_images,
                       IF r.raised THEN r.shown ELSE Append(r.shown, MsgComplete),
                       acc.analyses, <<>>, acc.all_catalogs, r.raised)]
  ELSE [session |-> ss,
        run |-> Run(key, "Dashboard", uploaded_images,
                    Append(acc.shown, MsgAllImages), acc.analyses, <<>>,
                    acc.all_catalogs, FALSE)]

(* Lines 87-129.  uploaded_images is the list the uploader or the camera   *)
(* gave; an empty one stands for [] and for None.                          *)
Dashboard(key, uploaded_images, ss) ==
  IF uploaded_images # <<>>
  THEN StoreAndRender(key, uploaded_images,
         AnalyzeAll(uploaded_images, 1,
           [shown |-> <<>>, analyses |-> <<>>, all_catalogs |-> <<>>,
            raised |-> FALSE]),
         ss)
  ELSE [session |-> ss,
        run |-> Run(key, "Dashboard", uploaded_images, <<>>, <<>>, <<>>, <<>>, FALSE)]

(* Lines 144-183 with the test "outfit_combinations is not None". *)
ShowOutfitsNotNone(catalog, outfit_combinations) ==
  IF outfit_combinations # None
  THEN IF \A i \in 1..Len(catalog.items) : HasGet(catalog.items[i])
       THEN [shown |-> <<WSuggestions, WDownload, WNextStep>>, raised |-> FALSE]
       ELSE [shown |-> <<WSuggestions>>, raised |-> TRUE]
  ELSE [shown |-> <<MsgNoOutfits>>, raised |-> FALSE]

(* Lines 144-183: what the page shows once the call has returned. *)
ShowOutfits(catalog, outfit_combinations) ==
  IF Truthy(outfit_combinations)
  THEN IF \A i \in 1..Len(catalog.items) : HasGet(catalog.items[i])
       THEN [shown |-> <<WSuggestions, WDownload, WNextStep>>, raised |-> FALSE]
       ELSE [shown |-> <<WSuggestions>>, raised |-> TRUE]
  ELSE [shown |-> <<MsgNoOutfits>>, raised |-> FALSE]

(* Lines 132-185 with st.session_state.get('catalog', []) for the test. *)
OutfitCombinationsDefaultCatalog(key, reply, ss) ==
  LET catalog == IF "catalog" \in DOMAIN ss THEN ss["catalog"] ELSE List(<<>>)
      out == generate_outfit_combinations(catalog, reply)
      call == [catalog |-> catalog, reply |-> reply, out |-> out]
      page == ShowOutfits(catalog, out.ret)
  IN [session |-> ss,
      run |-> IF out.raised
              THEN Run(key, "Outfit Combinations", <<>>, out.errors,
                       <<>>, <<call>>, <<>>, TRUE)
              ELSE Run(key, "Outfit Combinations", <<>>,
                       out.errors \o page.shown, <<>>, <<call>>, <<>>,
                       page.raised)]

(* Lines 132-185 *)
OutfitCombinations(key, reply, ss) ==
  IF "catalog" \in DOMAIN ss
  THEN LET catalog == ss["catalog"]
           out == generate_outfit_combinations(catalog, reply)
           call == [catalog |-> catalog, reply |-> reply, out |-> out]
           page == ShowOutfits(catalog, out.ret)
       IN [session |-> ss,
           run |-> IF out.raised
                   THEN Run(key, "Outfit Combinations", <<>>, out.errors,
                            <<>>, <<call>>, <<>>, TRUE)
                   ELSE Run(key, "Outfit Combinations", <<>>,
                            out.errors \o page.shown, <<>>, <<call>>, <<>>,
                            page.raised)]
  ELSE [session |-> ss,
        run |-> Run(key, "Outfit Combinations", <<>>, <<MsgUploadFirst>>,
                    <<>>, <<>>, <<>>, FALSE)]

---------------------------------------------------------------------------
(* Inputs *)

(* os.getenv("GOOGLE_API_KEY"): unset, empty, or a key *)
Keys == {None, Str(<<>>), Str(<<"1">>)}

(* Replies of the hosted model to the analysis prompt that the session     *)
(* machine draws from: an array of one object, an array in which a number  *)
(* stands between two objects, prose with no array, and an array that does *)
(* not decode.                                                             *)
ReplyOneItem == <<"[", "{", "}", "]">>
ReplyWithNumber == <<"[", "{", "}", ",", "1", ",", "{", "}", "]">>
ReplyProse == <<"1", "1">>
ReplyBroken == <<"[", "{", "1", "}", "]">>

SampleReplies == {ReplyOneItem, ReplyWithNumber, ReplyProse, ReplyBroken}

Images ==
  {Image(k, <<>>) : k \in {"unreadable", "call_raises", "no_text"}}
    \cup {Image("reply", t) : t \in SampleReplies}

Uploads == UNION {[1..n -> Images] : n \in 0..MaxImages}

(* Replies of the hosted model to the outfit prompt *)
OutfitReplies ==
  {Reply(k, <<>>) : k \in {"call_raises", "no_text", "reply"}}
    \cup {Reply("reply", <<"1">>)}

---------------------------------------------------------------------------
(* The session: runs of the script, one after another *)

Init ==
  /\ session = EmptySession
  /\ lastRun = NoRun

Finish(r) ==
  /\ session' = r.session
  /\ lastRun' = r.run

(* Lines 10-15: the script stops for want of a key. *)
RunStopped ==
  \E key \in Keys :
    /\ KeyMissing(key)
    /\ Finish(Stopped(key, session))

(* Lines 10-18 and main() with the Dashboard page selected. *)
RunDashboard ==
  \E key \in Keys :
    /\ ~KeyMissing(key)
    /\ \E uploaded_images \in Uploads :
         Finish(Dashboard(key, uploaded_images, session))

(* Lines 10-18 and main() with the Outfit Combinations page selected. *)
RunOutfitCombinations ==
  \E key \in Keys :
    /\ ~KeyMissing(key)
    /\ \E reply \in OutfitReplies :
         Finish(OutfitCombinations(key, reply, session))

Next ==
  \/ RunStopped
  \/ RunDashboard
  \/ RunOutfitCombinations

Spec == Init /\ [][Next]_vars

(* A fresh session whose first run is a Dashboard run over one picture,    *)
(* for every reply text of at most MaxLen characters.                      *)
RunFirstDashboard ==
  /\ session = EmptySession /\ lastRun = NoRun
  /\ \E key \in Keys :
       /\ ~KeyMissing(key)
       /\ \E text \in Texts :
            Finish(Dashboard(key, <<Image("reply", text)>>, session))

NextReplies == RunFirstDashboard

SpecReplies == Init /\ [][NextReplies]_vars

---------------------------------------------------------------------------
(* Properties *)

Shows(run, w) == \E i \in DOMAIN run.shown : run.shown[i] = w

Count(seq, w) == Cardinality({i \in DOMAIN seq : seq[i] = w})

RECURSIVE SumCalls(_, _)
SumCalls(calls, i) ==
  IF i > Len(calls) THEN 0 ELSE calls[i].out.calls + SumCalls(calls, i + 1)

(* The outbound calls of a run *)
RunCalls(run) == SumCalls(run.analyses, 1) + SumCalls(run.generations, 1)

(* C1, as claimed: every invocation of analyze_image and of                *)
(* generate_outfit_combinations makes exactly one outbound call, whatever  *)
(* its input and outcome.                                                  *)
C1_ExactlyOneCall ==
  /\ \A i \in DOMAIN lastRun.analyses : lastRun.analyses[i].out.calls = 1
  /\ \A i \in DOMAIN lastRun.generations : lastRun.generations[i].out.calls = 1

(* C1, amended: generate_outfit_combinations always makes exactly one      *)
(* outbound call; analyze_image makes exactly one unless the picture       *)
(* cannot be opened, and then it makes none.                               *)
C1_OneCallUnlessUnreadable ==
  /\ \A i \in DOMAIN lastRun.analyses :
       lastRun.analyses[i].out.calls =
         IF lastRun.analyses[i].image.kind = "unreadable" THEN 0 ELSE 1
  /\ \A i \in DOMAIN lastRun.generations : lastRun.generations[i].out.calls = 1

(* C1: a run that analysed an unreadable picture and an answered one. *)
C1_Witness ==
  /\ \E i \in DOMAIN lastRun.analyses :
       /\ lastRun.analyses[i].image.kind = "unreadable"
       /\ lastRun.analyses[i].out.calls = 0
  /\ \E i \in DOMAIN lastRun.analyses :
       /\ lastRun.analyses[i].image.kind = "reply"
       /\ lastRun.analyses[i].out.calls = 1

(* C2: a run of the Outfit Combinations page calls                         *)
(* generate_outfit_combinations only if the session holds a catalog, once, *)
(* with exactly that catalog; with no catalog it shows the upload warning  *)
(* and makes no outbound call.                                             *)
C2_HandOff ==
  [][lastRun'.page = "Outfit Combinations" =>
       IF "catalog" \in DOMAIN session
       THEN /\ Len(lastRun'.generations) = 1
            /\ lastRun'.generations[1].catalog = session["catalog"]
       ELSE /\ lastRun'.generations = <<>>
            /\ RunCalls(lastRun') = 0
            /\ lastRun'.shown = <<MsgUploadFirst>>]_vars

(* C2: an Outfit Combinations run that passed on the stored catalog. *)
C2_Witness ==
  /\ lastRun.page = "Outfit Combinations"
  /\ "catalog" \in DOMAIN session
  /\ Len(lastRun.generations) = 1
  /\ lastRun.generations[1].catalog = session["catalog"]
  /\ RunCalls(lastRun) = 1

(* C3, as claimed: every element of a list returned by analyze_image, and  *)
(* every element of the stored catalog, is a record (a dict).              *)
C3_ItemsAreRecords ==
  /\ \A i \in DOMAIN lastRun.analyses :
       LET ret == lastRun.analyses[i].out.ret
       IN IsList(ret) => \A j \in DOMAIN ret.items : ret.items[j].kind = "dict"
  /\ "catalog" \in DOMAIN session =>
       \A j \in DOMAIN session["catalog"].items :
         session["catalog"].items[j].kind = "dict"

(* The analysis of this picture fails: it cannot be opened, the call       *)
(* raises, the reply has no text, no array is found in it, the array does  *)
(* not decode, or it decodes to something that is no list.                 *)
AnalysisFails(image) ==
  \/ image.kind \in {"unreadable", "call_raises", "no_text"}
  \/ /\ image.kind = "reply"
     /\ LET raw == Strip(image.text)
            m == re_search(raw)
        IN \/ ~m.found
           \/ ~json_loads(group0(raw, m)).ok
           \/ ~IsList(json_loads(group0(raw, m)).val)

(* C4: no exception leaves analyze_image or generate_outfit_combinations;  *)
(* every failure shows an error and returns None; what analyze_image       *)
(* returns is None or a list.                                              *)
C4_NoExceptionEscapes ==
  /\ \A i \in DOMAIN lastRun.analyses :
       LET a == lastRun.analyses[i]
       IN /\ ~a.out.raised
          /\ a.out.ret = None \/ IsList(a.out.ret)
          /\ AnalysisFails(a.image) => a.out.ret = None /\ a.out.errors # <<>>
          /\ ~AnalysisFails(a.image) => a.out.ret # None /\ a.out.errors = <<>>
  /\ \A i \in DOMAIN lastRun.generations :
       LET g == lastRun.generations[i]
       IN /\ ~g.out.raised
          /\ g.reply.kind \in {"call_raises", "no_text"} =>
               g.out.ret = None /\ g.out.errors = <<MsgGenerate>>
          /\ g.reply.kind = "reply" =>
               g.out.ret = Str(g.reply.text) /\ g.out.errors = <<>>

(* C4: a run in which the model call raised during an analysis and one in  *)
(* which the reply did not decode, each reported and answered with None.   *)
C4_Witness ==
  /\ \E i \in DOMAIN lastRun.analyses :
       /\ lastRun.analyses[i].image.kind = "call_raises"
       /\ lastRun.analyses[i].out = Outcome(None, <<MsgAnalyze>>, 1, <<>>, FALSE)
  /\ \E i \in DOMAIN lastRun.analyses :
       /\ lastRun.analyses[i].image = Image("reply", ReplyBroken)
       /\ lastRun.analyses[i].out.ret = None
       /\ lastRun.analyses[i].out.errors = <<MsgParse>>

(* '[' at i, then optional whitespace, then '{' *)
OpensArray(t, i) ==
  /\ t[i] = "["
  /\ \E j \in (i + 1)..Len(t) :
       t[j] = "{" /\ \A x \in (i + 1)..(j - 1) : t[x] = " "

(* '}' at k, then optional whitespace, then ']' *)
ClosesArray(t, k) ==
  /\ t[k] = "}"
  /\ \E e \in (k + 1)..Len(t) :
       t[e] = "]" /\ \A x \in (k + 1)..(e - 1) : t[x] = " "

Opens(t) == {i \in 1..Len(t) : OpensArray(t, i)}
Closes(t) == {k \in 1..Len(t) : ClosesArray(t, k)}

(* The '{' that follows the '[' at i, and the ']' that follows the '}' at k *)
BraceOf(t, i) == CHOOSE j \in (i + 1)..Len(t) : t[j] = "{"
BracketOf(t, k) == CHOOSE e \in (k + 1)..Len(t) : t[e] = "]"

(* The span of C5 exists: the last closing '}' lies after the first        *)
(* opening '{'.                                                            *)
SpanExists(t) ==
  /\ Opens(t) # {} /\ Closes(t) # {}
  /\ Max(Closes(t)) > BraceOf(t, Min(Opens(t)))

Span(t) == SubSeq(t, Min(Opens(t)), BracketOf(t, Max(Closes(t))))

(* C5: the text from the first '[' followed by optional whitespace and '{' *)
(* to the last '}' followed by optional whitespace and ']' is the one      *)
(* argument json.loads is given; a reply with no such span returns None    *)
(* with the extraction error and json.loads is not called.                 *)
C5_Extraction ==
  \A i \in DOMAIN lastRun.analyses :
    LET a == lastRun.analyses[i]
    IN a.image.kind = "reply" =>
         IF SpanExists(a.image.text)
         THEN a.out.loads = <<Span(a.image.text)>>
         ELSE /\ a.out.loads = <<>>
              /\ a.out.ret = None
              /\ a.out.errors = <<MsgExtract>>

(* C5: a reply with two closing '}' ']' after the opening, of which the    *)
(* last ends the span handed to json.loads.                                *)
C5_Witness ==
  /\ Len(lastRun.analyses) = 1
  /\ LET a == lastRun.analyses[1]
     IN /\ SpanExists(a.image.text)
        /\ Cardinality({k \in Closes(a.image.text) :
                          k > BraceOf(a.image.text, Min(Opens(a.image.text)))}) >= 2
        /\ a.out.loads = <<Span(a.image.text)>>

(* C6: a Dashboard run that aggregated at least one item replaces the      *)
(* stored catalog by its aggregate; a Dashboard run that aggregated none   *)
(* leaves the session state as it was.                                     *)
C6_CatalogReplaced ==
  [][lastRun'.page = "Dashboard" =>
       IF lastRun'.all_catalogs # <<>>
       THEN /\ DOMAIN session' = {"catalog"}
            /\ session'["catalog"] = List(lastRun'.all_catalogs)
       ELSE session' = session]_vars

(* C6: after a Dashboard run in which every picture failed, the session    *)
(* still holds the catalog of an earlier run.                              *)
C6_Witness ==
  /\ lastRun.page = "Dashboard"
  /\ lastRun.analyses # <<>>
  /\ lastRun.all_catalogs = <<>>
  /\ "catalog" \in DOMAIN session

RECURSIVE ConcatResults(_, _)
ConcatResults(analyses, i) ==
  IF i > Len(analyses) THEN <<>>
  ELSE (IF Truthy(analyses[i].out.ret) THEN analyses[i].out.ret.items ELSE <<>>)
         \o ConcatResults(analyses, i + 1)

IsNonEmptyImage(u) == u.kind # "empty"

(* The aggregation of a Dashboard run: calls in upload order, the aggregate is    *)
(* the concatenation of the successful results, one per-image error for    *)
(* each failed picture.                                                    *)
C7_Aggregation ==
  lastRun.page = "Dashboard" /\ lastRun.uploaded_images # <<>> =>
    /\ [i \in DOMAIN lastRun.analyses |-> lastRun.analyses[i].image]
         = SelectSeq(lastRun.uploaded_images, IsNonEmptyImage)
    /\ lastRun.all_catalogs = ConcatResults(lastRun.analyses, 1)
    /\ Count(lastRun.shown, MsgOneImage)
         = Cardinality({i \in DOMAIN lastRun.analyses :
                          ~Truthy(lastRun.analyses[i].out.ret)})

(* C7, as claimed: in a Dashboard run over uploaded pictures analyze_image *)
(* is called once per picture in upload order, the aggregate is the        *)
(* concatenation of the successful results, each failed picture shows the  *)
(* per-image error, the success message is shown iff an item was           *)
(* aggregated and the all-images error iff none was.                       *)
C7_DashboardRun ==
  /\ C7_Aggregation
  /\ lastRun.page = "Dashboard" /\ lastRun.uploaded_images # <<>> =>
       /\ Shows(lastRun, MsgComplete) <=> lastRun.all_catalogs # <<>>
       /\ Shows(lastRun, MsgAllImages) <=> lastRun.all_catalogs = <<>>

(* C8: the Outfit Combinations page shows the suggestions, the download    *)
(* button and the next-step link only if generate_outfit_combinations      *)
(* returned a non-empty text; on None or an empty text it shows the        *)
(* could-not-generate error and no download; the session state is left as  *)
(* it was either way.                                                      *)
C8_OutfitPage ==
  [][lastRun'.page = "Outfit Combinations" /\ lastRun'.generations # <<>> =>
       LET ret == lastRun'.generations[1].out.ret
       IN /\ session' = session
          /\ (\/ Shows(lastRun', WSuggestions)
              \/ Shows(lastRun', WDownload)
              \/ Shows(lastRun', WNextStep))
               => ret.kind = "str" /\ ret.items # <<>>
          /\ (ret = None \/ ret = Str(<<>>))
               => /\ Shows(lastRun', MsgNoOutfits)
                  /\ ~Shows(lastRun', WDownload)]_vars

(* C8: a run in which the model answered the outfit prompt with an empty   *)
(* text.                                                                   *)
C8_Witness ==
  /\ lastRun.page = "Outfit Combinations"
  /\ Len(lastRun.generations) = 1
  /\ lastRun.generations[1].out.ret = Str(<<>>)
  /\ Shows(lastRun, MsgNoOutfits)
  /\ ~Shows(lastRun, WDownload)

C10_CatalogNonEmpty ==
  /\ "catalog" \in DOMAIN session =>
       IsList(session["catalog"]) /\ session["catalog"].items # <<>>
  /\ \A i \in DOMAIN lastRun.analyses :
       LET out == lastRun.analyses[i].out
       IN /\ out.ret # None => IsList(out.ret) /\ out.ret.items # <<>>
          /\ \A j \in DOMAIN out.errors : out.errors[j] # MsgNotArray
          /\ \A j \in DOMAIN out.loads :
               json_loads(out.loads[j]).ok =>
                 /\ IsList(json_loads(out.loads[j]).val)
                 /\ json_loads(out.loads[j]).val.items # <<>>
  /\ ~Shows(lastRun, MsgNotArray)

(* C10: a reply with text around the array, matched, decoded and stored. *)
C10_Witness ==
  /\ "catalog" \in DOMAIN session
  /\ Len(lastRun.analyses) = 1
  /\ LET a == lastRun.analyses[1]
     IN /\ a.out.loads # <<>>
        /\ Len(a.out.loads[1]) < Len(a.image.text)
        /\ json_loads(a.out.loads[1]).ok
        /\ session["catalog"] = a.out.ret

=============================================================================
